---- MODULE Spec2Model ----
(***************************************************************************)
(* Model of the AMMStrategy class of src/amm-strategy.ts: the polling      *)
(* loop, the breach guards, and the collect / withdraw / place sequence.   *)
(*                                                                         *)
(* Prices are integers in units of 0.0001 (one bin step of 1 bp), so       *)
(* '0.9995' is 9995 and '1.0005' is 10005.  Optional fields of the source  *)
(* (currentPositionId?, currentBinId?, currentBalance?) are sequences of   *)
(* length 0 (undefined) or 1.                                              *)
(***************************************************************************)
EXTENDS Integers, Sequences, FiniteSets, TLC

VARIABLES pc, isRunning, poolAddress, config, state, now, iter, prev, txLog,
          boot, pc2, rebalance2

vars == <<pc, isRunning, poolAddress, config, state, now, iter, prev, txLog,
          boot, pc2, rebalance2>>

(* ---------------- bounds of the model ---------------- *)

\* number of poll iterations explored (also the range of Date.now())
MaxClock == 3

\* largest on-chain balance a balance query returns
MaxBalance == 1

(* ---------------- program constants ---------------- *)

\* 1.0 in price units; a bin step of 1 bp is one unit
PriceScale == 10000

\* getCurrentPrice's fallback '1.0000'
DefaultPrice == 10000

\* extractPositionId's fallback
Placeholder == "0xposition123"

None == <<>>

Some(x) == <<x>>

\* config.ts defaults, and a second configuration whose band lies above 1.0
Configs ==
  { [lowerPrice |-> 9995, upperPrice |-> 10005, positionSize |-> 1, poolId |-> Some("0xpool")],
    [lowerPrice |-> 10001, upperPrice |-> 10003, positionSize |-> 2, poolId |-> None] }

\* object ids the chain hands out for positions
PositionIds == {"0xpos1", "0xpos2"}

Tokens == {"USDT", "USDC"}

(* ---------------- pure helpers of the class ---------------- *)

\* BinUtils.getPriceFromBinId(active_id, bin_step, 6, 6) * 1000000, toFixed(6):
\* 1.0001^b, which at six decimals is 1 + b * 0.0001 for the bins used here
PriceFromBinId(b) == PriceScale + b

\* BinUtils.getBinIdFromPrice(price, binStep, false, 6, 6): ceil(ln p / ln 1.0001)
priceToBinId(price) == price - PriceScale

\* active bins the pool is observed at: below, at, inside, at and above the band
ActiveBins(cfg) ==
  { priceToBinId(cfg.lowerPrice) - 1, priceToBinId(cfg.lowerPrice),
    priceToBinId(cfg.lowerPrice) + 1,
    priceToBinId(cfg.upperPrice), priceToBinId(cfg.upperPrice) + 1 }

\* faulty variants of the guards: compared with the other bound, or strict
BuyUSDCGuard_WrongBound(price, cfg) == price <= cfg.upperPrice

BuyUSDCGuard_Strict(price, cfg) == price < cfg.lowerPrice

BuyUSDTGuard_WrongBound(price, cfg) == price >= cfg.lowerPrice

BuyUSDTGuard_Strict(price, cfg) == price > cfg.upperPrice

\* the two guards of checkAndExecuteStrategy
BuyUSDCGuard(price, cfg) == price <= cfg.lowerPrice

BuyUSDTGuard(price, cfg) == price >= cfg.upperPrice

\* faulty variant: every poll starts the rebalance of the held token
Decide_Always(token, price, cfg) == IF token = "USDT" THEN "buyUSDC" ELSE "buyUSDT"

\* which rebalance, if any, one poll starts
Decide(token, price, cfg) ==
  IF token = "USDT"
    THEN (IF BuyUSDCGuard(price, cfg) THEN "buyUSDC" ELSE "none")
    ELSE (IF BuyUSDTGuard(price, cfg) THEN "buyUSDT" ELSE "none")

\* faulty variant: the asset being bought is deposited
DepositToken_Bought(rebalance) == IF rebalance = "buyUSDC" THEN "USDC" ELSE "USDT"

\* the token passed to addLiquidityAtBin by executeBuyUSDC / executeBuyUSDT
DepositToken(rebalance) == IF rebalance = "buyUSDC" THEN "USDT" ELSE "USDC"

\* faulty variant: the two boundary bins are exchanged
DepositBin_Swapped(rebalance, cfg) ==
  IF rebalance = "buyUSDC" THEN priceToBinId(cfg.upperPrice)
                           ELSE priceToBinId(cfg.lowerPrice)

\* the bin passed to addLiquidityAtBin
DepositBin(rebalance, cfg) ==
  IF rebalance = "buyUSDC" THEN priceToBinId(cfg.lowerPrice)
                           ELSE priceToBinId(cfg.upperPrice)

\* faulty variant: the flip assigns the token that was sold
TargetToken_NoFlip(rebalance) == IF rebalance = "buyUSDC" THEN "USDT" ELSE "USDC"

\* the value assigned to currentToken at the end of a rebalance
TargetToken(rebalance) == IF rebalance = "buyUSDC" THEN "USDC" ELSE "USDT"

\* faulty variant: the withdrawal side follows the held token
IsOnlyA_Held(token) == token = "USDC"

\* removeLiquidity line 428
IsOnlyA(token) == token = "USDT"

\* removeLiquidity line 437
RemoveAmount(cfg) == cfg.positionSize

\* faulty variant: the nominal amount is deposited
DepositAmount_Nominal(tokenType, balances, cfg) == cfg.positionSize

\* addLiquidityAtBin line 297
DepositAmount(tokenType, balances, cfg) ==
  IF tokenType = "USDC" THEN balances.usdc ELSE balances.usdt

\* addLiquidityAtBin line 317
FixAmountA(tokenType) == tokenType = "USDC"

\* results of client.getBalance for the two coins: each empty or at the largest balance
BalanceReads ==
  { [ok |-> TRUE, usdc |-> a, usdt |-> b] : a \in {0, MaxBalance}, b \in {0, MaxBalance} }
  \cup { [ok |-> FALSE, usdc |-> 0, usdt |-> 0] }

\* getTokenBalances: the returned pair ('0','0' when the query throws)
ReturnedBalances(r) ==
  IF r.ok THEN [usdc |-> r.usdc, usdt |-> r.usdt] ELSE [usdc |-> 0, usdt |-> 0]

\* getTokenBalances: state.currentBalance after the call
StoredBalance(r, old) == IF r.ok THEN Some([usdc |-> r.usdc, usdt |-> r.usdt]) ELSE old

\* transaction results seen by extractPositionId
TxResults ==
  { [created |-> c, event |-> e] :
      c \in {None, Some("0xpos1")}, e \in {None, Some("0xpos2")} }

extractPositionId(result) ==
  IF result.created # None THEN result.created[1]
  ELSE IF result.event # None THEN result.event[1]
  ELSE Placeholder

\* owned Position objects found by getExistingPositions ([] when the query throws)
OwnedPositions == { <<>>, <<"0xpos1">>, <<"0xpos2", "0xpos1">> }

(* ---------------- bookkeeping of one iteration ---------------- *)

\* the fields of PositionState an iteration is compared on
Snapshot(st) ==
  [currentToken |-> st.currentToken, currentPositionId |-> st.currentPositionId,
   currentBinId |-> st.currentBinId, lastActionTime |-> st.lastActionTime]

\* iter: the iteration in progress or last finished; prev: the one before it
NoIter ==
  [n |-> 0, price |-> DefaultPrice,
   before |-> [currentToken |-> "USDT", currentPositionId |-> None,
               currentBinId |-> None, lastActionTime |-> 0],
   rebalance |-> "none", threw |-> FALSE, read |-> "ok"]

\* a withdrawal of the iteration succeeded
Withdrew(log) == \E i \in 1..Len(log) : log[i].kind = "remove" /\ log[i].ok

NoPrev ==
  [n |-> 0, price |-> DefaultPrice, held |-> "USDT", rebalance |-> "none",
   clean |-> TRUE, threw |-> FALSE, withdrew |-> FALSE, flips |-> 0]

\* no call of the iteration failed
Clean(it, log) == ~it.threw /\ \A i \in 1..Len(log) : log[i].ok

Entry(kind, submitted, ok, position, token, amount, bin, isOnlyA, extract) ==
  [kind |-> kind, submitted |-> submitted, ok |-> ok, position |-> position,
   token |-> token, amount |-> amount, bin |-> bin, isOnlyA |-> isOnlyA,
   extract |-> extract]

(* ---------------- initial state: the constructor ---------------- *)

\* boot: what the startup in progress has read (cleared when the loop is entered)
NoBoot ==
  [phase |-> "-", held |-> "USDT", position |-> None, read |-> "-",
   query |-> "-", owned |-> <<>>, details |-> "-"]

Init ==
  /\ pc = "new"
  /\ isRunning = FALSE
  /\ poolAddress = None
  /\ config \in Configs
  /\ now = 0
  /\ state = [currentToken |-> "USDT", currentPositionId |-> None,
              currentBinId |-> None, lastActionTime |-> 0,
              totalProfit |-> "0", currentBalance |-> None]
  /\ iter = NoIter
  /\ prev = NoPrev
  /\ txLog = <<>>
  /\ boot = NoBoot
  /\ pc2 = "new"
  /\ rebalance2 = "none"

(***************************************************************************)
(* The steps of start() and of the loop it enters, as they act on the      *)
(* object: p / np are the control position of the invocation before and    *)
(* after the step, the other parameters are what the environment returns.  *)
(***************************************************************************)

\* faulty variant: start() leaves the flag as it finds it
FlagAtStart_Unset == FALSE

\* start line 81
FlagAtStart == TRUE

\* start() up to its first await
StartStep(p, np) ==
  /\ p \in {"new", "returned", "failed"}
  /\ isRunning' = FlagAtStart
  /\ np = "initializePool"
  /\ UNCHANGED <<poolAddress, config, state, now>>

\* faulty variant: the configured pool id is ignored
PoolIsConfigured_Never(cfg) == FALSE

\* initializePool line 127
PoolIsConfigured(cfg) == cfg.poolId # None

InitializePoolStep(p, np) ==
  /\ p = "initializePool"
  /\ IF PoolIsConfigured(config)
       THEN /\ poolAddress' = config.poolId
            /\ np = "detectInitialToken"
       ELSE \E found \in BOOLEAN :
              IF found
                THEN /\ poolAddress' = Some("0xlookup")
                     /\ np = "detectInitialToken"
                ELSE /\ poolAddress' = poolAddress
                     /\ np = "failed"
  /\ UNCHANGED <<isRunning, config, state, now>>

\* faulty variant: a tie selects USDC
InitialToken_TieUSDC(b) == IF b.usdc >= b.usdt THEN "USDC" ELSE "USDT"

\* detectInitialToken lines 573-583
InitialToken(b) == IF b.usdc > b.usdt THEN "USDC" ELSE "USDT"

DetectInitialTokenStep(p, np, r) ==
  /\ p = "detectInitialToken"
  /\ state' = [state EXCEPT
                 !.currentBalance = StoredBalance(r, @),
                 !.currentToken = InitialToken(ReturnedBalances(r))]
  /\ np = "getExistingPositions"
  /\ UNCHANGED <<isRunning, poolAddress, config, now>>

\* faulty variant: the last position found is adopted
AdoptedPosition_Last(owned) == owned[Len(owned)]

\* start line 96
AdoptedPosition(owned) == owned[1]

\* found: the ids returned by getExistingPositions
GetExistingPositionsStep(p, np, found) ==
  /\ p = "getExistingPositions"
  /\ state' = IF Len(found) > 0
                THEN [state EXCEPT !.currentPositionId = Some(AdoptedPosition(found))]
                ELSE state
  /\ np = "monitoringLoop"
  /\ UNCHANGED <<isRunning, poolAddress, config, now>>

\* the outcomes of the owned-objects query and of the position read after it
Discoveries ==
  { [query |-> q, owned |-> o, details |-> d] :
      q \in {"ok", "throw"}, o \in OwnedPositions, d \in {"ok", "throw", "-"} }

\* getExistingPositions returns [] when the query throws
Found(d) == IF d.query = "ok" THEN d.owned ELSE <<>>

Consistent(d) ==
  /\ d.query = "throw" => d.owned = <<>>
  /\ (d.details = "-") <=> (Found(d) = <<>>)

\* faulty variant: the loop does not look at the flag
LoopContinues_Always(running) == TRUE

\* monitoringLoop line 150
LoopContinues(running) == running

MonitoringLoopStep(p, np) ==
  /\ p = "monitoringLoop"
  /\ LoopContinues(isRunning) => now < MaxClock
  /\ np = IF LoopContinues(isRunning) THEN "checkAndExecuteStrategy" ELSE "returned"
  /\ UNCHANGED <<isRunning, poolAddress, config, state, now>>

\* faulty variant: a failed read leaves the caller with whatever was computed
PriceRead_NoFallback(read, b, pool) == PriceFromBinId(b)

\* getCurrentPrice: the formatted pool price, or the default when the read throws
PriceRead(read, b, pool) ==
  IF read = "ok" /\ pool # None THEN PriceFromBinId(b) ELSE DefaultPrice

\* the branch of checkAndExecuteStrategy taken after a price read
Polled(read, b) == Decide(state.currentToken, PriceRead(read, b, poolAddress), config)

\* getCurrentPrice followed by the guard of the held token
CheckAndExecuteStrategyStep(p, np, read, b) ==
  /\ p = "checkAndExecuteStrategy"
  /\ now < MaxClock
  /\ now' = now + 1
  /\ np = IF Polled(read, b) = "none" THEN "delay"
          ELSE IF state.currentPositionId # None THEN "collectFeesAndRewards"
          ELSE "addLiquidityAtBin"
  /\ UNCHANGED <<isRunning, poolAddress, config, state>>

\* faulty variant: a failed collection propagates to the polling loop
AfterCollect_Throws(outcome) == IF outcome = "ok" THEN "removeLiquidity" ELSE "backoff"

\* faulty variant: the withdrawal is skipped
AfterCollect_SkipsWithdrawal(outcome) == "addLiquidityAtBin"

\* where control goes when collectFeesAndRewards has returned
AfterCollect(outcome) == "removeLiquidity"

\* faulty variant: every id can be read
Unreadable_Never(position) == FALSE

\* the id is not the id of an object on chain (extractPositionId's fallback)
Unreadable(position) == position = Some(Placeholder)

\* how far collectFeesAndRewards / removeLiquidity can get with a position id:
\* removeLiquidity starts with Position.getPosition, which throws for an id
\* that names no object; no transaction on such an id succeeds
CollectOutcomes(position) ==
  IF Unreadable(position) THEN {"read_fail", "tx_fail"} ELSE {"read_fail", "tx_fail", "ok"}

RemoveOutcomes(position) ==
  IF Unreadable(position) THEN {"read_fail"} ELSE {"read_fail", "tx_fail", "ok"}

\* executeBuy lines 238 / 269 test currentPositionId again after the collection
CollectFeesAndRewardsStep(p, np, outcome) ==
  /\ p = "collectFeesAndRewards"
  /\ np = IF state.currentPositionId # None THEN AfterCollect(outcome)
          ELSE "addLiquidityAtBin"
  /\ UNCHANGED <<isRunning, poolAddress, config, state, now>>

\* faulty variant: the executeBuy function goes on after a failed withdrawal
AfterRemove_Continues(outcome) == "addLiquidityAtBin"

\* where control goes when removeLiquidity has returned or thrown
AfterRemove(outcome) == IF outcome = "ok" THEN "addLiquidityAtBin" ELSE "backoff"

\* faulty variants: a successful withdrawal keeps the position id, or the bin
AfterWithdrawal_KeepsId(st) == [st EXCEPT !.currentBinId = None]

AfterWithdrawal_KeepsBin(st) == [st EXCEPT !.currentPositionId = None]

\* faulty variant: a successful withdrawal clears nothing
AfterWithdrawal_Noop(st) == st

\* removeLiquidity lines 467-469
AfterWithdrawal(st) == [st EXCEPT !.currentPositionId = None, !.currentBinId = None]

RemoveLiquidityStep(p, np, outcome) ==
  /\ p = "removeLiquidity"
  /\ state' = IF outcome = "ok" THEN AfterWithdrawal(state) ELSE state
  /\ np = AfterRemove(outcome)
  /\ UNCHANGED <<isRunning, poolAddress, config, now>>

\* faulty variant: the id of the opened position is not recorded
OpenedPositionId_Absent(result) == None

\* currentPositionId after a successful open-position transaction
OpenedPositionId(result) == Some(extractPositionId(result))

\* faulty variant: a new position is opened whatever the state
PlacementKind_AlwaysOpen == "open"

\* the branch of addLiquidityAtBin line 334
PlacementKind == IF state.currentPositionId # None THEN "add" ELSE "open"

\* what one call of addLiquidityAtBin meets: the balance query, how far the
\* call gets, and the result of an open-position transaction
Placements ==
  { [r |-> r, outcome |-> o, result |-> x] :
      r \in BalanceReads, o \in {"read_fail", "tx_fail", "ok"}, x \in TxResults }

PlacedAmount(what, pl) == DepositAmount(DepositToken(what), ReturnedBalances(pl.r), config)

\* faulty variant: a zero balance is deposited
Insufficient_Negative(amount) == amount < 0

\* addLiquidityAtBin line 299
Insufficient(amount) == amount <= 0

\* faulty variant: a failed placement is swallowed
AfterPlacement_Swallows(ok) == "updateState"

\* where control goes when addLiquidityAtBin has returned or thrown
AfterPlacement(ok) == IF ok THEN "updateState" ELSE "backoff"

\* a result is looked at only after a successful open
Relevant(what, pl) ==
  /\ Insufficient(PlacedAmount(what, pl)) => pl.outcome = "read_fail"
  /\ (pl.outcome # "ok" \/ PlacementKind # "open") =>
        pl.result = [created |-> None, event |-> None]

AddLiquidityAtBinStep(p, np, what, pl) ==
  /\ p = "addLiquidityAtBin"
  /\ LET binId == DepositBin(what, config)
         bal == StoredBalance(pl.r, state.currentBalance)
     IN IF Insufficient(PlacedAmount(what, pl))
          THEN /\ state' = [state EXCEPT !.currentBalance = bal]
               /\ np = AfterPlacement(FALSE)
          ELSE IF pl.outcome = "ok"
            THEN /\ state' = IF PlacementKind = "open"
                      THEN [state EXCEPT !.currentBalance = bal,
                              !.currentPositionId = OpenedPositionId(pl.result),
                              !.currentBinId = Some(binId)]
                      ELSE [state EXCEPT !.currentBalance = bal]
                 /\ np = AfterPlacement(TRUE)
            ELSE /\ state' = [state EXCEPT !.currentBalance = bal]
                 /\ np = AfterPlacement(FALSE)
  /\ UNCHANGED <<isRunning, poolAddress, config, now>>

\* faulty variant: the flip also counts a profit
Flipped_CountsProfit(st, what, t) ==
  [st EXCEPT !.currentToken = TargetToken(what), !.lastActionTime = t,
             !.totalProfit = "1"]

\* executeBuyUSDC lines 248-249, executeBuyUSDT lines 279-280
Flipped(st, what, t) ==
  [st EXCEPT !.currentToken = TargetToken(what), !.lastActionTime = t]

\* executeBuyUSDC / executeBuyUSDT step 4
UpdateStateStep(p, np, what) ==
  /\ p = "updateState"
  /\ state' = Flipped(state, what, now)
  /\ np = "delay"
  /\ UNCHANGED <<isRunning, poolAddress, config, now>>

\* delay(checkInterval)
DelayStep(p, np) ==
  /\ p = "delay"
  /\ np = "monitoringLoop"
  /\ UNCHANGED <<isRunning, poolAddress, config, state, now>>

\* faulty variant: an error ends the loop
AfterError_Ends == "returned"

\* where the catch of monitoringLoop leaves control after delay(5000)
AfterError == "monitoringLoop"

BackoffStep(p, np) ==
  /\ p = "backoff"
  /\ np = AfterError
  /\ UNCHANGED <<isRunning, poolAddress, config, state, now>>

(***************************************************************************)
(* One invocation of start(): the steps above, with the record of what the *)
(* current iteration (iter, txLog), the one before it (prev) and the       *)
(* startup (boot) did.                                                     *)
(***************************************************************************)

second == <<pc2, rebalance2>>

\* the first call of start() on the object
Start ==
  /\ pc = "new"
  /\ StartStep(pc, pc')
  /\ iter' = NoIter
  /\ prev' = NoPrev
  /\ txLog' = <<>>
  /\ boot' = [NoBoot EXCEPT !.phase = "started"]
  /\ UNCHANGED second

InitializePool ==
  /\ InitializePoolStep(pc, pc')
  /\ UNCHANGED <<iter, prev, txLog, boot>>
  /\ UNCHANGED second

DetectInitialToken ==
  /\ \E r \in BalanceReads :
       /\ DetectInitialTokenStep(pc, pc', r)
       /\ boot' = [boot EXCEPT !.phase = "detected", !.held = state.currentToken,
                               !.read = IF r.ok THEN "ok" ELSE "throw"]
  /\ UNCHANGED <<iter, prev, txLog>>
  /\ UNCHANGED second

GetExistingPositions ==
  /\ \E d \in Discoveries :
       /\ Consistent(d)
       /\ GetExistingPositionsStep(pc, pc', Found(d))
       /\ boot' = [boot EXCEPT !.phase = "discovered", !.position = state.currentPositionId,
                               !.query = d.query, !.owned = Found(d), !.details = d.details]
  /\ UNCHANGED <<iter, prev, txLog>>
  /\ UNCHANGED second

MonitoringLoop ==
  /\ MonitoringLoopStep(pc, pc')
  /\ boot' = NoBoot
  /\ UNCHANGED <<iter, prev, txLog>>
  /\ UNCHANGED second

\* flips of currentToken in the iterations that end a run of polls at one price
SamePriceFlips(price) ==
  IF iter.n > 0 /\ price = iter.price
    THEN prev.flips + (IF state.currentToken # iter.before.currentToken THEN 1 ELSE 0)
    ELSE 0

CheckAndExecuteStrategy ==
  /\ \E read \in {"ok", "throw"} : \E b \in ActiveBins(config) :
       /\ CheckAndExecuteStrategyStep(pc, pc', read, b)
       /\ iter' = [n |-> iter.n + 1, price |-> PriceRead(read, b, poolAddress),
                   before |-> Snapshot(state), rebalance |-> Polled(read, b),
                   threw |-> FALSE,
                   read |-> IF read = "ok" /\ poolAddress # None THEN "ok" ELSE "throw"]
       /\ prev' = [n |-> iter.n, price |-> iter.price, held |-> iter.before.currentToken,
                   rebalance |-> iter.rebalance, clean |-> Clean(iter, txLog),
                   threw |-> iter.threw, withdrew |-> Withdrew(txLog),
                   flips |-> SamePriceFlips(PriceRead(read, b, poolAddress))]
  /\ txLog' = <<>>
  /\ UNCHANGED boot
  /\ UNCHANGED second

CollectFeesAndRewards ==
  /\ \E outcome \in CollectOutcomes(state.currentPositionId) :
       /\ CollectFeesAndRewardsStep(pc, pc', outcome)
       /\ txLog' = Append(txLog,
            Entry("collect", outcome # "read_fail", outcome = "ok",
                  state.currentPositionId, "-", 0, None, FALSE, "-"))
  /\ iter' = [iter EXCEPT !.threw = pc' = "backoff"]
  /\ UNCHANGED <<prev, boot>>
  /\ UNCHANGED second

RemoveLiquidity ==
  /\ \E outcome \in RemoveOutcomes(state.currentPositionId) :
       /\ RemoveLiquidityStep(pc, pc', outcome)
       /\ txLog' = Append(txLog,
            Entry("remove", outcome # "read_fail", outcome = "ok",
                  state.currentPositionId, "-", RemoveAmount(config), None,
                  IsOnlyA(state.currentToken), "-"))
  /\ iter' = [iter EXCEPT !.threw = pc' = "backoff"]
  /\ UNCHANGED <<prev, boot>>
  /\ UNCHANGED second

\* how extractPositionId found the id of a successful open
Extraction(pl) ==
  IF pl.outcome = "ok" /\ PlacementKind = "open"
    THEN (IF pl.result.created # None THEN "created"
          ELSE IF pl.result.event # None THEN "event"
          ELSE "none")
    ELSE "-"

AddLiquidityAtBin ==
  /\ \E pl \in Placements :
       /\ Relevant(iter.rebalance, pl)
       /\ AddLiquidityAtBinStep(pc, pc', iter.rebalance, pl)
       /\ txLog' = Append(txLog,
            Entry(PlacementKind,
                  ~Insufficient(PlacedAmount(iter.rebalance, pl)) /\ pl.outcome # "read_fail",
                  ~Insufficient(PlacedAmount(iter.rebalance, pl)) /\ pl.outcome = "ok",
                  state.currentPositionId, DepositToken(iter.rebalance),
                  PlacedAmount(iter.rebalance, pl),
                  Some(DepositBin(iter.rebalance, config)),
                  FixAmountA(DepositToken(iter.rebalance)), Extraction(pl)))
  /\ iter' = [iter EXCEPT !.threw = pc' = "backoff"]
  /\ UNCHANGED <<prev, boot>>
  /\ UNCHANGED second

UpdateState ==
  /\ UpdateStateStep(pc, pc', iter.rebalance)
  /\ UNCHANGED <<iter, prev, txLog, boot>>
  /\ UNCHANGED second

Delay ==
  /\ DelayStep(pc, pc')
  /\ UNCHANGED <<iter, prev, txLog, boot>>
  /\ UNCHANGED second

Backoff ==
  /\ BackoffStep(pc, pc')
  /\ UNCHANGED <<iter, prev, txLog, boot>>
  /\ UNCHANGED second

(* ---------------- stop() ---------------- *)

Stop ==
  /\ isRunning
  /\ isRunning' = FALSE
  /\ UNCHANGED <<pc, poolAddress, config, state, now, iter, prev, txLog, boot>>
  /\ UNCHANGED second

Next ==
  \/ Start
  \/ InitializePool
  \/ DetectInitialToken
  \/ GetExistingPositions
  \/ Stop
  \/ MonitoringLoop
  \/ CheckAndExecuteStrategy
  \/ CollectFeesAndRewards
  \/ RemoveLiquidity
  \/ AddLiquidityAtBin
  \/ UpdateState
  \/ Delay
  \/ Backoff

Spec == Init /\ [][Next]_vars

(* ---------------- start() called again after it has returned ---------------- *)

Restart ==
  /\ pc # "new"
  /\ StartStep(pc, pc')
  /\ iter' = NoIter
  /\ prev' = NoPrev
  /\ txLog' = <<>>
  /\ boot' = [NoBoot EXCEPT !.phase = "started"]
  /\ UNCHANGED second

RestartNext == Next \/ Restart

RestartSpec == Init /\ [][RestartNext]_vars

(* ---------------- the process of run-strategy.ts ---------------- *)

\* the SIGINT / SIGTERM handlers: strategy.stop() followed by process.exit(0)
Signal ==
  /\ pc \notin {"new", "returned", "failed", "exited"}
  /\ isRunning' = FALSE
  /\ pc' = "exited"
  /\ UNCHANGED <<poolAddress, config, state, now, iter, prev, txLog, boot>>
  /\ UNCHANGED second

ProcessNext == Next \/ Signal

ProcessSpec == Init /\ [][ProcessNext]_vars

(***************************************************************************)
(* start() invoked again while an earlier invocation has not returned:     *)
(* two runs of the same steps on the same object.  Each run has its own    *)
(* control position and its own executeBuy function in progress (what);    *)
(* the record of iterations is not kept here.                              *)
(***************************************************************************)

\* the steps that leave the executeBuy function in progress as it is
Steps(p, np, what) ==
  \/ InitializePoolStep(p, np)
  \/ \E r \in BalanceReads : DetectInitialTokenStep(p, np, r)
  \/ \E d \in Discoveries : Consistent(d) /\ GetExistingPositionsStep(p, np, Found(d))
  \/ MonitoringLoopStep(p, np)
  \/ \E outcome \in CollectOutcomes(state.currentPositionId) :
       CollectFeesAndRewardsStep(p, np, outcome)
  \/ \E outcome \in RemoveOutcomes(state.currentPositionId) :
       RemoveLiquidityStep(p, np, outcome)
  \/ \E pl \in Placements : Relevant(what, pl) /\ AddLiquidityAtBinStep(p, np, what, pl)
  \/ UpdateStateStep(p, np, what)
  \/ DelayStep(p, np)
  \/ BackoffStep(p, np)

FirstStart ==
  /\ StartStep(pc, pc')
  /\ iter' = NoIter
  /\ UNCHANGED <<prev, txLog, boot>>
  /\ UNCHANGED second

FirstSteps ==
  /\ \/ Steps(pc, pc', iter.rebalance) /\ UNCHANGED iter
     \/ \E read \in {"ok", "throw"} : \E b \in ActiveBins(config) :
          /\ CheckAndExecuteStrategyStep(pc, pc', read, b)
          /\ iter' = [NoIter EXCEPT !.rebalance = Polled(read, b)]
  /\ UNCHANGED <<prev, txLog, boot>>
  /\ UNCHANGED second

SecondRun ==
  /\ \/ StartStep(pc2, pc2') /\ rebalance2' = "none"
     \/ Steps(pc2, pc2', rebalance2) /\ UNCHANGED rebalance2
     \/ \E read \in {"ok", "throw"} : \E b \in ActiveBins(config) :
          /\ CheckAndExecuteStrategyStep(pc2, pc2', read, b)
          /\ rebalance2' = Polled(read, b)
  /\ UNCHANGED <<pc, iter, prev, txLog, boot>>

ReentrantNext ==
  \/ FirstStart
  \/ FirstSteps
  \/ SecondRun
  \/ Stop

\* the constructor run at a time that leaves two poll iterations to explore
ReentrantInit ==
  /\ pc = "new"
  /\ isRunning = FALSE
  /\ poolAddress = None
  /\ config \in Configs
  /\ now = MaxClock - 2
  /\ state = [currentToken |-> "USDT", currentPositionId |-> None,
              currentBinId |-> None, lastActionTime |-> now,
              totalProfit |-> "0", currentBalance |-> None]
  /\ iter = NoIter
  /\ prev = NoPrev
  /\ txLog = <<>>
  /\ boot = NoBoot
  /\ pc2 = "new"
  /\ rebalance2 = "none"

ReentrantSpec == ReentrantInit /\ [][ReentrantNext]_vars

(***************************************************************************)
(* One invocation without the record of iterations, under the assumption   *)
(* that every external call and every delay returns.                       *)
(***************************************************************************)

LoopNext ==
  \/ FirstStart
  \/ FirstSteps
  \/ Stop

FairSpec == Init /\ [][LoopNext]_vars /\ WF_vars(FirstSteps)

(***************************************************************************)
(* addLiquidityAtBin on its own: one call from every PositionState it can  *)
(* be entered in.  It is entered with a position id present when another   *)
(* invocation of start() has set the id since this one tested it.          *)
(***************************************************************************)

PlacementStates(cfg) ==
  [currentToken : Tokens,
   currentPositionId : {None} \cup { Some(x) : x \in PositionIds },
   currentBinId : {None, Some(priceToBinId(cfg.lowerPrice)), Some(priceToBinId(cfg.upperPrice))},
   lastActionTime : {0},
   totalProfit : {"0"},
   currentBalance : {None, Some([usdc |-> MaxBalance, usdt |-> MaxBalance])}]

PlacementInit ==
  /\ pc = "addLiquidityAtBin"
  /\ isRunning \in BOOLEAN
  /\ poolAddress = Some("0xpool")
  /\ config \in Configs
  /\ now = 1
  /\ state \in PlacementStates(config)
  /\ state.currentPositionId = None => state.currentBinId = None
  /\ \E what \in {"buyUSDC", "buyUSDT"} :
       iter = [n |-> 1,
               price |-> IF what = "buyUSDC" THEN config.lowerPrice ELSE config.upperPrice,
               before |-> [currentToken |-> DepositToken(what), currentPositionId |-> None,
                           currentBinId |-> None, lastActionTime |-> 0],
               rebalance |-> what, threw |-> FALSE, read |-> "ok"]
  /\ state.currentToken = iter.before.currentToken \/ state.currentPositionId # None
  /\ prev = NoPrev
  /\ txLog = <<>>
  /\ boot = NoBoot
  /\ pc2 = IF state.currentPositionId # None THEN "monitoringLoop" ELSE "new"
  /\ rebalance2 = "none"

PlacementNext == AddLiquidityAtBin \/ UpdateState

PlacementSpec == PlacementInit /\ [][PlacementNext]_vars

(* ---------------- vocabulary of the properties ---------------- *)

Held == iter.before.currentToken

\* the last iteration has ended (the loop is between iterations or has returned)
IterDone ==
  /\ iter.n > 0
  /\ pc \in {"delay", "backoff", "monitoringLoop", "checkAndExecuteStrategy", "returned"}

\* the iteration has entered executeBuyUSDC / executeBuyUSDT
Started(what) ==
  /\ iter.n > 0
  /\ iter.rebalance = what
  /\ \/ pc \in {"collectFeesAndRewards", "removeLiquidity", "addLiquidityAtBin", "updateState"}
     \/ txLog # <<>>

Submitted(kinds) == { i \in 1..Len(txLog) : txLog[i].kind \in kinds /\ txLog[i].submitted }

Attempted(kinds) == { i \in 1..Len(txLog) : txLog[i].kind \in kinds }

NoWithdrawalOrPlacement ==
  /\ iter.rebalance = "none"
  /\ Attempted({"remove", "add", "open"}) = {}

(* ---------------- C1 ---------------- *)

GuardFalse ==
  \/ Held = "USDT" /\ iter.price > config.lowerPrice
  \/ Held = "USDC" /\ iter.price < config.upperPrice

TwoCleanPolls ==
  /\ IterDone /\ prev.n > 0
  /\ prev.held = "USDC"
  /\ prev.clean /\ Clean(iter, txLog)

ThroughUSDTOnce == Held = "USDT" /\ state.currentToken = "USDC"

SingleSided(e, token, bin) ==
  e.token = token /\ e.isOnlyA = (token = "USDC") /\ e.bin = Some(bin)

BalanceOf(token) ==
  IF token = "USDC" THEN state.currentBalance[1].usdc ELSE state.currentBalance[1].usdt

\* C8: every placement deposits the full balance of the deposited asset as
\* read at placement time; positionSize is the amount of the withdrawal plan.
C8_Sizing ==
  /\ \A i \in Submitted({"add", "open"}) :
        /\ state.currentBalance # None
        /\ txLog[i].amount = BalanceOf(txLog[i].token)
  /\ \A i \in Submitted({"remove"}) : txLog[i].amount = config.positionSize

C8_Witness ==
  /\ \E i \in Submitted({"remove"}) : txLog[i].amount = config.positionSize
  /\ \E i \in Submitted({"add", "open"}) :
        /\ txLog[i].amount # config.positionSize
        /\ txLog[i].amount = BalanceOf(txLog[i].token)

(* ---------------- C9 ---------------- *)

\* C9: after a successful open whose result matches neither a created object
\* nor a creation event, the iteration reports an error and currentPositionId
\* stays absent.
C9_NoPlaceholder ==
  \A i \in Submitted({"open"}) :
     (txLog[i].ok /\ txLog[i].extract = "none") =>
        /\ iter.threw
        /\ state.currentPositionId = None

(* ---------------- C10 ---------------- *)

CollectFailedJustNow ==
  /\ pc = "collectFeesAndRewards" /\ pc' # pc
  /\ ~txLog'[Len(txLog')].ok

\* C10: a failed fee collection is swallowed: it leaves PositionState as it
\* was and control goes on to the withdrawal of the same position.
C10_CollectFailureSwallowed ==
  [][CollectFailedJustNow =>
       /\ state' = state
       /\ ~iter'.threw
       /\ pc' = "removeLiquidity"
       /\ txLog'[Len(txLog')].position = state'.currentPositionId]_vars

C10_Witness ==
  /\ Len(txLog) >= 2
  /\ txLog[1].kind = "collect" /\ ~txLog[1].ok
  /\ txLog[2].kind = "remove" /\ txLog[2].submitted
  /\ txLog[2].position = txLog[1].position

(* ---------------- C11 ---------------- *)

ReadFailed == iter.n > 0 /\ iter.read = "throw"

\* C11: in every configuration, an iteration whose price read failed starts
\* no rebalance and attempts no withdrawal or placement.
C11_FailedReadNeverBreaches == ReadFailed => NoWithdrawalOrPlacement

(* ---------------- C12 ---------------- *)

BandContainsOne == config.lowerPrice < PriceScale /\ PriceScale < config.upperPrice

\* C12: a failed pool read yields the price 1.0 without an error, and with
\* lowerPrice < 1.0 < upperPrice the iteration takes no action, whichever
\* token is held.
C12_NeutralDefaultInsideBand ==
  ReadFailed =>
    /\ iter.price = PriceScale
    /\ BandContainsOne =>
         /\ iter.rebalance = "none" /\ ~iter.threw
         /\ txLog = <<>>
         /\ Snapshot(state) = iter.before
         /\ pc \in {"delay", "monitoringLoop", "checkAndExecuteStrategy", "returned"}

C12_Witness ==
  /\ ReadFailed /\ BandContainsOne /\ pc = "delay"
  /\ Held = "USDC" /\ state.currentPositionId # None

(* ---------------- C13 ---------------- *)

BreachWithoutPosition ==
  /\ iter.n > 0 /\ iter.rebalance # "none"
  /\ iter.before.currentPositionId = None

InSequence(p) ==
  p \in {"collectFeesAndRewards", "removeLiquidity", "addLiquidityAtBin", "updateState"}

\* the invocation is inside a poll iteration (from the price read to the
\* end of the rebalance)
InIteration(p) == p = "checkAndExecuteStrategy" \/ InSequence(p)

\* C14: on one controller, whatever start() and stop() calls are made, two
\* withdraw-then-place sequences are never in flight together and no poll
\* iteration starts while another is unresolved.
C14_OneSequenceInFlight ==
  /\ ~(InSequence(pc) /\ InSequence(pc2))
  /\ ~(InIteration(pc) /\ InIteration(pc2))

(* ---------------- C15 ---------------- *)

Stopped == ~isRunning /\ pc \notin {"new", "returned", "failed"}

\* C15: stop() changes nothing but the flag; after it no poll iteration is
\* entered, a rebalance in flight goes on to its end (success, with the
\* token flipped and the time stamped, or failure), and the loop returns.
C15_StopOnlyPreventsNewIteration ==
  /\ [][(isRunning /\ ~isRunning') =>
          /\ pc' = pc /\ state' = state /\ poolAddress' = poolAddress]_vars
  /\ [][(~isRunning' /\ pc' = "checkAndExecuteStrategy") =>
          pc = "checkAndExecuteStrategy"]_vars
  /\ [][(Stopped /\ InSequence(pc) /\ pc' # pc) =>
          (InSequence(pc') \/ pc' \in {"delay", "backoff"})]_vars
  /\ [][(Stopped /\ pc = "updateState" /\ pc' # pc) =>
          /\ pc' = "delay"
          /\ state'.currentToken # state.currentToken
          /\ state'.lastActionTime = now]_vars
  /\ (Stopped /\ InSequence(pc)) ~> (pc \in {"delay", "backoff"})
  /\ Stopped ~> (pc \in {"returned", "failed"})

C15_Witness ==
  /\ Stopped /\ pc = "updateState"
  /\ state.currentToken = "USDC" /\ state.currentPositionId # None

(* ---------------- C16 ---------------- *)

\* C16: a stop signal that arrives while a rebalance is in flight does not
\* end the process before the rebalance has completed or failed.
C16_SignalWaitsForRebalance ==
  [][pc' = "exited" => ~InSequence(pc)]_vars

(* ---------------- C17 ---------------- *)

\* C17: an iteration that fails is followed by the backoff and the loop
\* test, never by the end of the loop: the loop returns only once stop() has
\* been invoked, start() fails only at pool resolution, and while the
\* controller is running another poll iteration starts.
C17_ErrorsDoNotEndLoop ==
  /\ [][(pc = "backoff" /\ pc' # pc) => pc' = "monitoringLoop"]_vars
  /\ [][(pc' = "returned" /\ pc # "returned") =>
          (pc = "monitoringLoop" /\ ~isRunning)]_vars
  /\ [][(pc' = "failed" /\ pc # "failed") => pc = "initializePool"]_vars
  /\ (pc = "backoff" /\ now < MaxClock) ~>
        (pc = "checkAndExecuteStrategy" \/ ~isRunning)

C17_Witness ==
  /\ pc = "backoff" /\ isRunning /\ now < MaxClock
  /\ state.currentPositionId # None

(* ---------------- C18 ---------------- *)

Detected == pc = "getExistingPositions" /\ boot.phase = "detected"

\* C18: after a balance detection whose reads succeeded, currentToken is USDC
\* iff the USDC balance is strictly larger, and USDT otherwise (tie included).
C18_InitialToken ==
  (Detected /\ boot.read = "ok") =>
    /\ state.currentBalance # None
    /\ LET b == state.currentBalance[1] IN
         /\ (state.currentToken = "USDC") <=> (b.usdc > b.usdt)
         /\ (b.usdt > b.usdc) => state.currentToken = "USDT"
         /\ (b.usdt = b.usdc) => state.currentToken = "USDT"

C18_Witness ==
  /\ Detected /\ boot.read = "ok"
  /\ state.currentBalance = Some([usdc |-> MaxBalance, usdt |-> MaxBalance])
  /\ state.currentToken = "USDT"

(* ---------------- C19 ---------------- *)

Discovered == pc = "monitoringLoop" /\ boot.phase = "discovered"

\* C19: when the balance reads of a startup fail, currentToken keeps its
\* earlier value if a position is discovered and is USDT if none is.
C19_FailedDetection ==
  (Discovered /\ boot.read = "throw") =>
    /\ boot.owned # <<>> => state.currentToken = boot.held
    /\ boot.owned = <<>> => state.currentToken = "USDT"

(* ---------------- C20 ---------------- *)

\* C20: a startup that discovers positions adopts the first one (also when
\* its details cannot be read) without touching currentToken; one that
\* discovers none, or whose query fails, leaves currentPositionId as it was;
\* either way the loop is entered next, before any poll iteration.
C20_Adoption ==
  [][(pc = "getExistingPositions" /\ pc' # pc) =>
       /\ pc' = "monitoringLoop" /\ isRunning' = isRunning /\ iter'.n = 0
       /\ state'.currentToken = state.currentToken
       /\ boot'.owned # <<>> => state'.currentPositionId = Some(boot'.owned[1])
       /\ boot'.owned = <<>> => state'.currentPositionId = state.currentPositionId]_vars

C20_Witness ==
  /\ Discovered /\ boot.details = "throw"
  /\ boot.owned = <<"0xpos2", "0xpos1">>
  /\ state.currentPositionId = Some("0xpos2")
  /\ state.currentToken = "USDC"

(* ---------------- C21 ---------------- *)

\* C21: a configured pool id is taken as the pool address without a lookup
\* (so it cannot fail); otherwise the address is the result of the lookup, and
\* a failed lookup fails start(): no balance is read, no position discovered,
\* no iteration run and no transaction submitted in that run.
C21_PoolResolution ==
  /\ [][(pc = "initializePool" /\ pc' # pc) =>
          /\ config.poolId # None =>
               pc' = "detectInitialToken" /\ poolAddress' = config.poolId
          /\ config.poolId = None =>
               \/ pc' = "detectInitialToken" /\ poolAddress' = Some("0xlookup")
               \/ pc' = "failed" /\ poolAddress' = None
          /\ state' = state /\ txLog' = txLog]_vars
  /\ [][pc = "failed" => pc' = "failed" /\ state' = state /\ txLog' = txLog
                         /\ iter' = iter /\ boot' = boot]_vars
  /\ [](pc = "failed" =>
          /\ boot.phase = "started" /\ iter.n = 0 /\ txLog = <<>>
          /\ state.currentBalance = None /\ state.currentPositionId = None)

C21_Witness ==
  /\ pc = "failed" /\ config.poolId = None /\ poolAddress = None
  /\ boot.phase = "started"

(* ---------------- C22 ---------------- *)

PositionId == state.currentPositionId

OpenSucceeds == pc = "addLiquidityAtBin" /\ pc' = "updateState" /\ PlacementKind = "open"

WithdrawalSucceeds == pc = "removeLiquidity" /\ pc' = "addLiquidityAtBin"

Adopts == pc = "getExistingPositions" /\ pc' = "monitoringLoop" /\ boot'.owned # <<>>

\* C22 as stated: currentPositionId is absent at construction, becomes
\* present exactly when the controller opens a position successfully and
\* becomes absent exactly when a withdrawal succeeds.
C22_Original ==
  /\ PositionId = None \/ pc # "new"
  /\ [][/\ (PositionId' # PositionId /\ PositionId' # None) => OpenSucceeds
        /\ (PositionId # None /\ PositionId' = None) => WithdrawalSucceeds
        /\ OpenSucceeds => PositionId' # None
        /\ WithdrawalSucceeds => PositionId' = None]_vars

\* C22 amended: currentPositionId becomes present exactly when the controller
\* opens a position successfully or adopts one found at startup, and becomes
\* absent exactly when a withdrawal succeeds.
C22_PresentIffOpenOrAdopted ==
  /\ PositionId = None \/ pc # "new"
  /\ [][/\ (PositionId' # PositionId /\ PositionId' # None) => (OpenSucceeds \/ Adopts)
        /\ (PositionId # None /\ PositionId' = None) => WithdrawalSucceeds
        /\ (OpenSucceeds \/ Adopts) => PositionId' # None
        /\ WithdrawalSucceeds => PositionId' = None]_vars

C22_Witness ==
  /\ pc = "addLiquidityAtBin" /\ PositionId = None
  /\ iter.before.currentPositionId = Some("0xpos2")
  /\ prev.n > 0 /\ prev.rebalance = "buyUSDC" /\ prev.clean

(* ---------------- C23 ---------------- *)

\* C23: the cycle of the README: holding USDT, USDT is placed at the bin of
\* upperPrice on a price above upperPrice; holding USDC, USDC is placed at
\* the bin of lowerPrice on a price below lowerPrice.
C23_ReadmeCycle ==
  \A i \in Submitted({"add", "open"}) :
     /\ Held = "USDT" => /\ SingleSided(txLog[i], "USDT", priceToBinId(config.upperPrice))
                         /\ iter.price > config.upperPrice
     /\ Held = "USDC" => /\ SingleSided(txLog[i], "USDC", priceToBinId(config.lowerPrice))
                         /\ iter.price < config.lowerPrice

(* ---------------- C24 ---------------- *)

\* C24: a placement whose deposit balance is zero or negative (a failed
\* balance query reports zero) throws before any transaction is submitted,
\* and the iteration ends without flipping currentToken.
C24_InsufficientBalance ==
  \A i \in Attempted({"add", "open"}) :
     txLog[i].amount <= 0 =>
        /\ ~txLog[i].submitted /\ ~txLog[i].ok
        /\ iter.threw
        /\ state.currentToken = Held
        /\ pc \in {"backoff", "monitoringLoop", "checkAndExecuteStrategy", "returned"}

C24_Witness ==
  /\ pc = "backoff" /\ Len(txLog) = 1
  /\ txLog[1].kind = "open" /\ txLog[1].amount = 0 /\ ~txLog[1].submitted
  /\ state.currentBalance = None
  /\ state.currentToken = Held

(* ---------------- C25 ---------------- *)

\* a withdrawal or a placement of the iteration failed
RebalanceFailed ==
  \E i \in 1..Len(txLog) : txLog[i].kind \in {"remove", "add", "open"} /\ ~txLog[i].ok

\* C25: after startup currentToken changes only at the last step of a
\* rebalance whose placement succeeded; a rebalance in which the withdrawal
\* or the placement failed ends with currentToken and lastActionTime as they
\* were, and one in which they succeeded ends with the other token and a
\* later lastActionTime.
C25_FlipIsLastStep ==
  /\ [][(state'.currentToken # state.currentToken /\ pc # "detectInitialToken") =>
          /\ pc = "updateState" /\ pc' = "delay"
          /\ txLog # <<>>
          /\ txLog[Len(txLog)].kind \in {"add", "open"} /\ txLog[Len(txLog)].ok]_vars
  /\ []((IterDone /\ iter.rebalance # "none") =>
          IF RebalanceFailed
            THEN /\ state.currentToken = Held
                 /\ state.lastActionTime = iter.before.lastActionTime
            ELSE /\ state.currentToken # Held
                 /\ state.lastActionTime > iter.before.lastActionTime)

C25_Witness ==
  /\ IterDone /\ iter.rebalance = "buyUSDT" /\ ~RebalanceFailed
  /\ Withdrew(txLog)
  /\ state.currentToken = "USDT" /\ state.lastActionTime = now

(* ---------------- C26 ---------------- *)

\* C26: a withdrawal that fails, before or at its transaction, is the last
\* call of the iteration: the error reaches the loop, no placement is
\* attempted, and currentToken, currentPositionId and currentBinId are as
\* they were at the price read.
C26_WithdrawalFailurePropagates ==
  \A i \in Attempted({"remove"}) :
     ~txLog[i].ok =>
        /\ i = Len(txLog)
        /\ Attempted({"add", "open"}) = {}
        /\ iter.threw
        /\ Snapshot(state) = iter.before
        /\ pc \in {"backoff", "monitoringLoop", "checkAndExecuteStrategy", "returned"}

C26_Witness ==
  /\ pc = "backoff" /\ Len(txLog) = 2
  /\ txLog[2].kind = "remove" /\ ~txLog[2].submitted
  /\ state.currentPositionId # None /\ state.currentBinId # None

(* ---------------- C27 ---------------- *)

PlacementFailed ==
  \E i \in 1..Len(txLog) : txLog[i].kind \in {"add", "open"} /\ ~txLog[i].ok

\* the iteration before this one withdrew its position and then threw
WithdrawnNotPlaced == iter.n > 0 /\ prev.n > 0 /\ prev.withdrew /\ prev.threw

\* C27: an iteration whose withdrawal succeeded and whose placement failed
\* ends with currentPositionId and currentBinId absent and currentToken
\* unflipped; if the guard holds at the next poll, that iteration goes
\* straight to the placement, with no fee collection and no withdrawal.
C27_ResumesWithPlacement ==
  /\ (Withdrew(txLog) /\ PlacementFailed) =>
        /\ state.currentPositionId = None /\ state.currentBinId = None
        /\ state.currentToken = Held
        /\ iter.threw
  /\ WithdrawnNotPlaced =>
        /\ iter.before.currentPositionId = None /\ iter.before.currentBinId = None
        /\ Held = prev.held
        /\ iter.rebalance # "none" =>
             /\ Attempted({"collect", "remove"}) = {}
             /\ pc \notin {"collectFeesAndRewards", "removeLiquidity"}
             /\ pc = "addLiquidityAtBin" \/ Attempted({"open"}) # {}

C27_Witness ==
  /\ WithdrawnNotPlaced /\ iter.rebalance = prev.rebalance /\ iter.rebalance # "none"
  /\ Len(txLog) = 1 /\ txLog[1].kind = "open" /\ txLog[1].ok
  /\ pc = "delay" /\ state.currentToken # Held

(* ---------------- C28 ---------------- *)

RebalanceWithPosition ==
  iter.n > 0 /\ iter.rebalance # "none" /\ iter.before.currentPositionId # None

\* C28: in a rebalance that starts with an open position the calls are made
\* in the order fee collection, withdrawal, placement: the withdrawal comes
\* second, after the collection has returned, and the placement third, after
\* a withdrawal that succeeded.
C28_FixedOrder ==
  RebalanceWithPosition =>
    /\ Len(txLog) <= 3
    /\ \A i \in 1..Len(txLog) :
         /\ txLog[i].kind = "collect" <=> i = 1
         /\ txLog[i].kind = "remove" <=> i = 2
         /\ txLog[i].kind \in {"add", "open"} <=> i = 3
         /\ i = 3 => txLog[2].submitted /\ txLog[2].ok
    /\ pc = "removeLiquidity" => Len(txLog) = 1
    /\ pc = "addLiquidityAtBin" => Len(txLog) = 2 /\ txLog[2].ok

C28_Witness ==
  /\ RebalanceWithPosition /\ Len(txLog) = 3
  /\ ~txLog[1].ok /\ txLog[2].ok /\ txLog[3].kind = "open" /\ txLog[3].submitted

(* ---------------- C29 ---------------- *)

\* C29: a withdrawal that succeeds clears currentPositionId and
\* currentBinId, for every configured amount; one that fails leaves both.
C29_WithdrawalClearsBoth ==
  [][(pc = "removeLiquidity" /\ pc' # pc) =>
       IF txLog'[Len(txLog')].ok
         THEN state'.currentPositionId = None /\ state'.currentBinId = None
         ELSE /\ state'.currentPositionId = state.currentPositionId
              /\ state'.currentBinId = state.currentBinId]_vars

C29_Witness ==
  /\ pc = "addLiquidityAtBin" /\ Len(txLog) = 2
  /\ txLog[2].kind = "remove" /\ txLog[2].ok /\ txLog[2].amount = 2
  /\ iter.before.currentBinId # None
  /\ state.currentPositionId = None /\ state.currentBinId = None

(* ---------------- C30 ---------------- *)

TargetBin ==
  IF iter.rebalance = "buyUSDC" THEN priceToBinId(config.lowerPrice)
                                ELSE priceToBinId(config.upperPrice)

\* C30: a placement entered with currentPositionId present builds the
\* add-to-existing payload for that id and leaves currentPositionId and
\* currentBinId alone; one entered with it absent builds the open payload
\* for the target bin and, on success, sets currentPositionId to the id
\* extracted from the result and currentBinId to the target bin.
C30_PlacementBranch ==
  [][(pc = "addLiquidityAtBin" /\ pc' # pc) =>
       LET e == txLog'[Len(txLog')] IN
         /\ PositionId # None =>
              /\ e.kind = "add" /\ e.position = PositionId
              /\ PositionId' = PositionId
              /\ state'.currentBinId = state.currentBinId
         /\ PositionId = None =>
              /\ e.kind = "open" /\ e.bin = Some(TargetBin)
              /\ e.ok =>
                   /\ PositionId' # None
                   /\ e.extract = "created" => PositionId' = Some("0xpos1")
                   /\ e.extract = "event" => PositionId' = Some("0xpos2")
                   /\ state'.currentBinId = Some(TargetBin)
              /\ ~e.ok =>
                   /\ PositionId' = None
                   /\ state'.currentBinId = state.currentBinId]_vars

C30_Witness ==
  /\ pc = "updateState" /\ Len(txLog) = 1
  /\ txLog[1].kind = "add" /\ txLog[1].ok
  /\ txLog[1].position = Some("0xpos2") /\ PositionId = Some("0xpos2")
  /\ state.currentBinId = None

(* ---------------- C31 ---------------- *)

\* C31: in a single run of the loop every placement is entered with
\* currentPositionId absent, so it is an open, never an add to an existing
\* position, and a rebalance that succeeds has opened a position.
C31_AlwaysOpens ==
  /\ pc = "addLiquidityAtBin" => PositionId = None
  /\ \A i \in Attempted({"add", "open"}) :
        /\ txLog[i].kind = "open"
        /\ txLog[i].position = None
  /\ (IterDone /\ iter.rebalance # "none" /\ ~iter.threw) =>
        \E i \in Submitted({"open"}) : txLog[i].ok /\ i = Len(txLog)

C31_Witness ==
  /\ IterDone /\ iter.rebalance # "none" /\ ~iter.threw
  /\ Len(txLog) = 3 /\ txLog[2].kind = "remove" /\ txLog[2].ok
  /\ txLog[3].kind = "open" /\ txLog[3].ok /\ txLog[3].position = None
  /\ iter.before.currentPositionId # None /\ PositionId # None

(* ---------------- C32 ---------------- *)

StuckAtStart == iter.n > 0 /\ iter.before.currentPositionId = Some(Placeholder)

FlippedNow == iter.n > 0 /\ state.currentToken # Held

\* C33: with lowerPrice < upperPrice no price satisfies both guards: an
\* iteration flips currentToken at most once, after a flip the price just
\* read does not satisfy the guard of the new token, and the iterations of
\* a run of polls at one price flip it at most once between them.
C33_OneFlipPerPrice ==
  /\ [](config.lowerPrice < config.upperPrice)
  /\ [][(state'.currentToken # state.currentToken /\ pc = "updateState") =>
          state.currentToken = Held]_vars
  /\ [](FlippedNow =>
          /\ pc \in {"delay", "monitoringLoop", "checkAndExecuteStrategy", "returned"}
          /\ state.currentToken = "USDC" => iter.price < config.upperPrice
          /\ state.currentToken = "USDT" => iter.price > config.lowerPrice)
  /\ []((iter.n > 0 /\ prev.n > 0 /\ prev.price = iter.price) =>
          prev.flips + (IF FlippedNow THEN 1 ELSE 0) <= 1)

C33_Witness ==
  /\ IterDone /\ iter.n = 3 /\ prev.price = iter.price
  /\ prev.flips = 1 /\ prev.rebalance = "none" /\ iter.rebalance = "none"
  /\ ~FlippedNow

(* ---------------- C34 ---------------- *)

\* the iteration has changed currentToken, currentPositionId or currentBinId
ChangedPositionState ==
  \/ state.currentToken # iter.before.currentToken
  \/ state.currentPositionId # iter.before.currentPositionId
  \/ state.currentBinId # iter.before.currentBinId

\* C34: an iteration that has changed PositionState, in particular by a
\* successful withdrawal or a successful placement, has also updated
\* lastActionTime by the time it ends.
C34_StampedOnEveryChange ==
  (IterDone /\ ChangedPositionState) =>
     state.lastActionTime > iter.before.lastActionTime

(* ---------------- C35 ---------------- *)

\* no executeBuy function is in progress
BetweenRebalances == ~InSequence(pc)

\* C35: currentBinId is present only with currentPositionId; between
\* rebalances a present currentBinId is bin(lowerPrice) exactly when USDC is
\* held and bin(upperPrice) exactly when USDT is held.
C35_BinMatchesToken ==
  /\ state.currentBinId # None => PositionId # None
  /\ (BetweenRebalances /\ state.currentBinId # None) =>
        /\ state.currentBinId = Some(priceToBinId(config.lowerPrice))
             <=> state.currentToken = "USDC"
        /\ state.currentBinId = Some(priceToBinId(config.upperPrice))
             <=> state.currentToken = "USDT"

(* ---------------- C36 ---------------- *)

\* positions of start() before the first poll, and its two ends
StartupOrEnd ==
  {"initializePool", "detectInitialToken", "getExistingPositions",
   "monitoringLoop", "returned", "failed"}

StoppedInStartup == ~isRunning /\ iter.n = 0 /\ pc \in StartupOrEnd

\* C36: a controller stopped during startup never polls, and start() returns
\* with zero iterations; before start() the flag is already false, so stop()
\* leaves the state as it is, and start() sets the flag whatever came before,
\* so the loop is entered with the flag set unless stop() intervenes again.
C36_StopDuringStartup ==
  /\ [][StoppedInStartup => StoppedInStartup']_vars
  /\ [](pc = "new" => (~isRunning /\ ~ENABLED Stop))
  /\ [][(pc = "new" /\ pc' # "new") => (isRunning' /\ pc' = "initializePool")]_vars
  /\ [][(pc = "monitoringLoop" /\ isRunning /\ pc' # pc) =>
          pc' = "checkAndExecuteStrategy"]_vars

C36_Witness ==
  /\ pc = "returned" /\ ~isRunning /\ iter.n = 0
  /\ poolAddress # None /\ PositionId # None

(* ---------------- C37 ---------------- *)

\* C37: totalProfit is "0" after construction and no operation changes it.
C37_ProfitNeverWritten == state.totalProfit = "0"

C37_Witness ==
  /\ IterDone /\ Clean(iter, txLog) /\ iter.rebalance = "buyUSDT"
  /\ prev.clean /\ prev.rebalance = "buyUSDC"
  /\ state.totalProfit = "0"

====
